---- MODULE Spec2Model ----
(***************************************************************************)
(* Image-to-PDF converter: the page component's image list (upload,        *)
(* removal, reordering, sorting, editing) and the PDFConverter that lays   *)
(* the images out on the pages of a PDF document.                          *)
(*                                                                         *)
(* Conventions.  Array indices are kept 0-based in the records, as in the  *)
(* TypeScript (i, imagesOnCurrentPage, order); the element of a TLA+       *)
(* sequence that a 0-based index i names is s[i + 1].  An object URL is    *)
(* represented by the id of the image it was created for.  Image ids are   *)
(* the results of Math.random(): the model draws the least ids not held by *)
(* the list (any fresh value is a possible draw; the names do not matter). *)
(***************************************************************************)
EXTENDS Integers, Sequences, FiniteSets, TLC

VARIABLES
    images,          \* useState<ImageFile[]>: the stored image list
    sortBy,          \* useState<SortOption>
    sortOrder,       \* useState<SortOrder>
    layout,          \* useState<Layout>
    selectedImages,  \* useState<Set<string>>
    draggedImage,    \* useState<string | null>; NoId for null
    error,           \* useState<string | null>; NoMessage for null
    success,         \* useState<string | null>; NoMessage for null
    isConverting,    \* useState(false)
    loading,         \* image elements created by handleFileSelect, load pending
    revoked,         \* object URLs passed to URL.revokeObjectURL
    now,             \* the clock read by new Date()
    conv,            \* the PDFConverter.convertToPDF call in progress
    convLog,         \* history of the conversion loop: starts and outcomes
    pageSize,        \* useState<PageSize>
    orientation,     \* useState<Orientation>
    quality,         \* useState<Quality>
    preferences,     \* useState<UserPreferences>
    localStorage,    \* the entries of window.localStorage: key -> string
    proc             \* one pass of the converter over an image: processImage
                     \* and the placement of its canvas on the page

\* The page's settings and preferences, and the browser's storage
settingsVars == <<pageSize, orientation, quality, preferences, localStorage>>

vars == <<images, sortBy, sortOrder, layout, selectedImages, draggedImage,
          error, success, isConverting, loading, revoked, now, conv, convLog,
          settingsVars, proc>>

uiVars == <<images, sortBy, sortOrder, layout, selectedImages, draggedImage,
            error, success, isConverting, loading, revoked, now,
            settingsVars, proc>>

(***************************************************************************)
(* Bounds of the model and constants of the program.                       *)
(***************************************************************************)
MaxList == 3            \* images held by the list in the bounded specifications
MaxConv == 9            \* images handed to a stand-alone conversion
MaxClock == 1           \* readings of the clock
MaxBatch == 2           \* files of one selection
MaxEdit == 2            \* images held by the list while they are edited
MaxPage == 2            \* images held by the list while it is converted
MaxRevoked == 1         \* images removed in the specifications that fill the list
MaxRemoved == 2         \* images removed in the specifications of removal and reordering

MaxImages == 50         \* handleFileSelect: images per session
MaxFileSize == 10485760 \* handleFileSelect: 10 * 1024 * 1024
FullTurn == 360         \* rotateImageHandler / rotateImage: % 360
MinAdjust == -100       \* Math.max(-100, ...)
MaxAdjust == 100        \* Math.min(100, ...)
cols == 2               \* convertMultiplePerPage
rows == 2               \* convertMultiplePerPage

NoId == 0

(***************************************************************************)
(* Helpers on sequences.                                                   *)
(***************************************************************************)
Range(s) == {s[k] : k \in 1..Len(s)}

Min(a, b) == IF a < b THEN a ELSE b
Max(a, b) == IF a > b THEN a ELSE b

\* Array.prototype.findIndex, 0-based, -1 when there is none
FindIndex(s, id) ==
    IF \E k \in 1..Len(s) : s[k].id = id
    THEN (CHOOSE k \in 1..Len(s) :
              s[k].id = id /\ \A j \in 1..(k - 1) : s[j].id # id) - 1
    ELSE -1

Ids(s) == [k \in 1..Len(s) |-> s[k].id]

(***************************************************************************)
(* Data.  A File is what the browser hands to handleFileSelect; whether    *)
(* its bytes decode as an image (loadable) and the decoded size are facts  *)
(* of the file that the code learns only when an Image element loads it.   *)
(***************************************************************************)
MkFile(name, major, size, loadable, w, h) ==
    [name |-> name, major |-> major, size |-> size, loadable |-> loadable,
     width |-> w, height |-> h]

\* interface ImageData: what the page hands to the converter
MkImageData(id, file) ==
    [id |-> id, file |-> file, preview |-> id, name |-> file.name,
     dimensions |-> [width |-> file.width, height |-> file.height],
     rotation |-> 0, brightness |-> 0, contrast |-> 0]

Layouts == {"one-per-page", "multiple-per-page"}

(***************************************************************************)
(* The page component (ImageToPDFConverter).  Messages are tuples of       *)
(* strings, <<>> standing for null.                                        *)
(***************************************************************************)
NoMessage == <<>>

SortOptions == {"name", "size", "date", "dimensions", "custom"}
SortOrders == {"asc", "desc"}

\* interface ImageFile, as built by handleFileSelect (lines 166-178)
MkImageFile(id, file, time, order) ==
    [id |-> id, file |-> file, preview |-> id, name |-> file.name,
     size |-> file.size, dimensions |-> [width |-> 0, height |-> 0],
     uploadTime |-> time, rotation |-> 0, brightness |-> 0, contrast |-> 0,
     order |-> order]

\* Variant of tooManyFiles: the images already held are not counted.
tooManyFilesSelectionOnly(imgs, files) == Len(files) > MaxImages

\* handleFileSelect, line 140: the file count check
tooManyFiles(imgs, files) == Len(imgs) + Len(files) > MaxImages

\* Variant of isValidFile: the size limit is not checked.
isValidFileNoSizeLimit(file) == file.major = "image"

\* handleFileSelect, lines 146-158: the filter predicate
isValidFile(file) ==
    /\ file.major = "image"            \* file.type.startsWith('image/')
    /\ ~(file.size > MaxFileSize)

\* The message the filter leaves for a rejected file
invalidFileMessage(file) ==
    IF file.major # "image"
    THEN <<"File", file.name, "is not a valid image">>
    ELSE <<"File", file.name, "exceeds 10MB limit">>

\* The ids in use: those of the list and those whose object URL was revoked
\* (every image that left the list).
UsedIds == Range(Ids(images)) \cup revoked

\* The k-th fresh id (k = 1, 2, ...): the k-th least natural not in use
RECURSIVE FreshId(_, _)
FreshId(used, k) ==
    LET least == CHOOSE n \in 1..(Cardinality(used) + 1) : 
                     n \notin used /\ \A m \in 1..(n - 1) : m \in used
    IN  IF k = 1 THEN least ELSE FreshId(used \cup {least}, k - 1)

\* handleFileSelect, lines 162-179
newImagesOf(imgs, validFiles, used, time) ==
    [k \in 1..Len(validFiles) |->
        MkImageFile(FreshId(used, k), validFiles[k], time, Len(imgs) + (k - 1))]

\* handleFileSelect (lines 133-201), files being a non-null FileList
handleFileSelect(files) ==
    /\ success' = IF tooManyFiles(images, files)
                     \/ SelectSeq(files, isValidFile) = <<>>
                  THEN NoMessage
                  ELSE <<"Successfully uploaded", Len(SelectSeq(files, isValidFile))>>
    /\ IF tooManyFiles(images, files)
       THEN /\ error' = <<"Maximum 50 images allowed per session">>
            /\ UNCHANGED <<images, loading>>
       ELSE LET validFiles == SelectSeq(files, isValidFile)
                invalid == SelectSeq(files, LAMBDA f : ~isValidFile(f))
                newImages == newImagesOf(images, validFiles, UsedIds, now)
            IN  /\ error' = IF invalid = <<>> THEN NoMessage
                            ELSE invalidFileMessage(invalid[Len(invalid)])
                /\ images' = images \o newImages
                /\ loading' = loading \cup Range(newImages)
    /\ UNCHANGED <<settingsVars, proc, sortBy, sortOrder, layout,
                   selectedImages, draggedImage,
                   isConverting, revoked, now, conv, convLog>>

\* imgElement.onload (lines 184-190) of the element created for img
imageOnload(img) ==
    /\ img \in loading
    /\ img.file.loadable /\ img.preview \notin revoked
    /\ loading' = loading \ {img}
    /\ images' = [k \in 1..Len(images) |->
                    IF images[k].id = img.id
                    THEN [images[k] EXCEPT !.dimensions =
                            [width |-> img.file.width, height |-> img.file.height]]
                    ELSE images[k]]
    /\ UNCHANGED <<settingsVars, proc, sortBy, sortOrder, layout,
                   selectedImages, draggedImage,
                   error, success, isConverting, revoked, now, conv, convLog>>

\* imgElement.onerror (lines 191-193)
imageOnerror(img) ==
    /\ img \in loading
    /\ ~(img.file.loadable /\ img.preview \notin revoked)
    /\ loading' = loading \ {img}
    /\ error' = <<"Failed to load image", img.name>>
    /\ UNCHANGED <<settingsVars, proc, images, sortBy, sortOrder, layout,
                   selectedImages,
                   draggedImage, success, isConverting, revoked, now, conv,
                   convLog>>

\* Variant of removeImage: the object URL is not revoked.
removeImageNoRevoke(id) ==
    /\ revoked' = revoked
    /\ images' = SelectSeq(images, LAMBDA img : img.id # id)
    /\ selectedImages' = selectedImages \ {id}
    /\ error' = NoMessage
    /\ success' = NoMessage
    /\ UNCHANGED <<settingsVars, proc, sortBy, sortOrder, layout,
                   draggedImage, isConverting,
                   loading, now, conv, convLog>>

\* removeImage (lines 216-232): prev.find gives the first image of that id
removeImage(id) ==
    /\ revoked' = IF FindIndex(images, id) = -1 THEN revoked
                  ELSE revoked \cup {images[FindIndex(images, id) + 1].preview}
    /\ images' = SelectSeq(images, LAMBDA img : img.id # id)
    /\ selectedImages' = selectedImages \ {id}
    /\ error' = NoMessage
    /\ success' = NoMessage
    /\ UNCHANGED <<settingsVars, proc, sortBy, sortOrder, layout,
                   draggedImage, isConverting,
                   loading, now, conv, convLog>>

\* toggleImageSelection (lines 235-245)
toggleImageSelection(id) ==
    /\ selectedImages' = IF id \in selectedImages THEN selectedImages \ {id}
                         ELSE selectedImages \cup {id}
    /\ UNCHANGED <<settingsVars, proc, images, sortBy, sortOrder, layout,
                   draggedImage, error,
                   success, isConverting, loading, revoked, now, conv, convLog>>

\* removeSelectedImages (lines 248-258)
removeSelectedImages ==
    /\ revoked' = revoked \cup {images[k].preview :
                      k \in {j \in 1..Len(images) : images[j].id \in selectedImages}}
    /\ images' = SelectSeq(images, LAMBDA img : img.id \notin selectedImages)
    /\ selectedImages' = {}
    /\ error' = NoMessage
    /\ success' = NoMessage
    /\ UNCHANGED <<settingsVars, proc, sortBy, sortOrder, layout,
                   draggedImage, isConverting,
                   loading, now, conv, convLog>>

\* newImages.splice(index, 1)
SpliceOut(s, index) ==
    [k \in 1..(Len(s) - 1) |-> IF k <= index THEN s[k] ELSE s[k + 1]]

\* newImages.splice(index, 0, item); an index beyond the end appends
SpliceIn(s, index, item) ==
    LET at == Min(index, Len(s))
    IN  [k \in 1..(Len(s) + 1) |->
            IF k <= at THEN s[k] ELSE IF k = at + 1 THEN item ELSE s[k - 1]]

\* handleImageDrop, lines 286-308: the setImages updater
reorder(prev, dragged, target) ==
    IF FindIndex(prev, dragged) = -1 \/ FindIndex(prev, target) = -1 THEN prev
    ELSE LET draggedIndex == FindIndex(prev, dragged)
             targetIndex == FindIndex(prev, target)
             draggedImg == prev[draggedIndex + 1]
             moved == SpliceIn(SpliceOut(prev, draggedIndex), targetIndex, draggedImg)
         IN  [k \in 1..Len(moved) |-> [moved[k] EXCEPT !.order = k - 1]]

\* handleImageDragStart (lines 261-264); cards are draggable in custom order
handleImageDragStart(id) ==
    /\ sortBy = "custom"
    /\ draggedImage' = id
    /\ UNCHANGED <<settingsVars, proc, images, sortBy, sortOrder, layout,
                   selectedImages, error,
                   success, isConverting, loading, revoked, now, conv, convLog>>

\* handleImageDrop (lines 278-313)
handleImageDrop(targetImageId) ==
    /\ draggedImage' = NoId
    /\ IF draggedImage = NoId \/ draggedImage = targetImageId
       THEN UNCHANGED <<images, sortBy>>
       ELSE /\ images' = reorder(images, draggedImage, targetImageId)
            /\ sortBy' = "custom"
    /\ UNCHANGED <<settingsVars, proc, sortOrder, layout, selectedImages,
                   error, success,
                   isConverting, loading, revoked, now, conv, convLog>>

(***************************************************************************)
(* Editing: rotation, brightness, contrast.                                *)
(***************************************************************************)
\* The JavaScript remainder a % n: the result has the sign of the dividend
jsRemainder(a, n) == IF a >= 0 THEN a % n ELSE -((-a) % n)

\* Variant of clampAdjust: the lower limit is missing.
clampAdjustUpperOnly(v) == Min(MaxAdjust, v)

\* Math.max(-100, Math.min(100, v))
clampAdjust(v) == Max(MinAdjust, Min(MaxAdjust, v))

\* rotateImage (pdf-converter, lines 655-660)
rotateImage(imageData, degrees) ==
    [imageData EXCEPT !.rotation = jsRemainder(imageData.rotation + degrees, FullTurn)]

\* adjustBrightness (pdf-converter, lines 665-670)
adjustBrightness(imageData, brightness) ==
    [imageData EXCEPT !.brightness = clampAdjust(brightness)]

\* adjustContrast (pdf-converter, lines 675-680)
adjustContrast(imageData, contrast) ==
    [imageData EXCEPT !.contrast = clampAdjust(contrast)]

\* The setImages updaters of the three handlers (lines 317-321, 326-330,
\* 335-339): prev.map(img => img.id === id ? {...img, field: value} : img)
rotateUpdater(prev, id, degrees) ==
    [k \in 1..Len(prev) |->
        IF prev[k].id = id
        THEN [prev[k] EXCEPT !.rotation =
                 jsRemainder(prev[k].rotation + degrees, FullTurn)]
        ELSE prev[k]]
brightnessUpdater(prev, id, brightness) ==
    [k \in 1..Len(prev) |->
        IF prev[k].id = id
        THEN [prev[k] EXCEPT !.brightness = clampAdjust(brightness)]
        ELSE prev[k]]
contrastUpdater(prev, id, contrast) ==
    [k \in 1..Len(prev) |->
        IF prev[k].id = id
        THEN [prev[k] EXCEPT !.contrast = clampAdjust(contrast)]
        ELSE prev[k]]

editFrame == <<sortBy, sortOrder, layout, selectedImages, draggedImage, error,
               success, isConverting, loading, revoked, now, conv, convLog,
               settingsVars, proc>>

\* rotateImageHandler (lines 316-322)
rotateImageHandler(id, degrees) ==
    /\ images' = rotateUpdater(images, id, degrees)
    /\ UNCHANGED editFrame

\* adjustBrightnessHandler (lines 325-331)
adjustBrightnessHandler(id, brightness) ==
    /\ images' = brightnessUpdater(images, id, brightness)
    /\ UNCHANGED editFrame

\* adjustContrastHandler (lines 334-340)
adjustContrastHandler(id, contrast) ==
    /\ images' = contrastUpdater(images, id, contrast)
    /\ UNCHANGED editFrame

\* The Reset button of the rotation row (line 841)
resetRotation(image) == rotateImageHandler(image.id, -image.rotation)

\* The Reset All button (lines 891-895): three handler calls in one event,
\* their arguments read from the rendered image, their updaters applied in
\* order.
resetAll(image) ==
    /\ images' = contrastUpdater(
                    brightnessUpdater(
                        rotateUpdater(images, image.id, -image.rotation),
                        image.id, -image.brightness),
                    image.id, -image.contrast)
    /\ UNCHANGED editFrame

(***************************************************************************)
(* Sorting.                                                                *)
(***************************************************************************)
\* String.prototype.localeCompare on the file names of the model: the
\* collation puts "a.png" before "B.png" before "c.png" (letters before
\* case), unlike the order of the code units.
CollationKey(name) ==
    CASE name = "a.png" -> 1
      [] name = "B.png" -> 2
      [] name = "c.png" -> 3
      [] OTHER -> 4

localeCompare(a, b) == CollationKey(a) - CollationKey(b)

\* The comparison of the switch of sortedImages (lines 356-371)
comparison(a, b, by) ==
    CASE by = "name" -> localeCompare(a.name, b.name)
      [] by = "size" -> a.size - b.size
      [] by = "date" -> a.uploadTime - b.uploadTime
      [] by = "dimensions" ->
            (a.dimensions.width * a.dimensions.height)
                - (b.dimensions.width * b.dimensions.height)
      [] OTHER -> 0

\* Variant of compareFn: the sort order is ignored.
compareFnAscOnly(a, b, by, ord) ==
    IF by = "custom" THEN a.order - b.order ELSE comparison(a, b, by)

\* The compare functions handed to sort (lines 350 and 353-374)
compareFn(a, b, by, ord) ==
    IF by = "custom" THEN a.order - b.order
    ELSE IF ord = "asc" THEN comparison(a, b, by) ELSE -comparison(a, b, by)

\* Array.prototype.sort(compareFn) is a stable sort.  Every compare function
\* here is the difference of a numeric key, hence a consistent order, and the
\* sorted array is fixed by it: element k comes after the elements that
\* compare less and after the equal ones that precede it in the array.
ArraySort(arr, by, ord) ==
    LET n == Len(arr)
        before == [k \in 1..n |->
                     Cardinality({j \in 1..n :
                         \/ compareFn(arr[j], arr[k], by, ord) < 0
                         \/ compareFn(arr[j], arr[k], by, ord) = 0 /\ j < k})]
        at == [p \in 1..n |-> CHOOSE k \in 1..n : before[k] = p - 1]
    IN  [p \in 1..n |-> arr[at[p]]]

\* Variant of sortedImagesCall: images.sort(...) without the copy.
sortedImagesCallInPlace(imgs, by, ord) ==
    [stored |-> ArraySort(imgs, by, ord), result |-> ArraySort(imgs, by, ord)]

\* sortedImages() (lines 348-375): [...images].sort(...) sorts a copy in
\* place; stored is the state array after the call, result the array returned.
sortedImagesCall(imgs, by, ord) ==
    [stored |-> imgs, result |-> ArraySort(imgs, by, ord)]

sortedImages == sortedImagesCall(images, sortBy, sortOrder).result

\* The Select of line 668
setSortBy(value) ==
    /\ sortBy' = value
    /\ UNCHANGED <<settingsVars, proc, images, sortOrder, layout,
                   selectedImages, draggedImage,
                   error, success, isConverting, loading, revoked, now, conv,
                   convLog>>

\* The order button of lines 683-691, rendered unless the order is custom
toggleSortOrder ==
    /\ sortBy # "custom"
    /\ sortOrder' = IF sortOrder = "asc" THEN "desc" ELSE "asc"
    /\ UNCHANGED <<settingsVars, proc, images, sortBy, layout, selectedImages,
                   draggedImage,
                   error, success, isConverting, loading, revoked, now, conv,
                   convLog>>

\* The Select of line 964
setLayout(value) ==
    /\ layout' = value
    /\ UNCHANGED <<settingsVars, proc, images, sortBy, sortOrder,
                   selectedImages, draggedImage,
                   error, success, isConverting, loading, revoked, now, conv,
                   convLog>>

\* new Date() moves on
Tick ==
    /\ now < MaxClock
    /\ now' = now + 1
    /\ UNCHANGED <<settingsVars, proc, images, sortBy, sortOrder, layout,
                   selectedImages,
                   draggedImage, error, success, isConverting, loading,
                   revoked, conv, convLog>>

(***************************************************************************)
(* Settings and preferences.  An object is a function from its property    *)
(* names to their values.  A JSON text is the sequence of its members in   *)
(* the order of the object's properties, each a name and a literal; a      *)
(* literal is a kind and the characters of the value.                      *)
(***************************************************************************)
PageSizes == {"A4", "Letter", "Legal"}
Orientations == {"portrait", "landscape"}
Qualities == {"low", "medium", "high"}

PreferencesKey == "imageToPdfPreferences"

\* The properties of UserPreferences in the order of the initial state
\* (lines 63-70); a spread keeps the position of a property it overwrites
PreferenceProperties ==
    <<"defaultPageSize", "defaultOrientation", "defaultQuality",
      "defaultLayout", "customFilename", "rememberSettings">>

\* useState<UserPreferences>({...}) (lines 63-70)
DefaultPreferences ==
    [k \in Range(PreferenceProperties) |->
        CASE k = "defaultPageSize" -> "A4"
          [] k = "defaultOrientation" -> "portrait"
          [] k = "defaultQuality" -> "high"
          [] k = "defaultLayout" -> "one-per-page"
          [] k = "customFilename" -> "converted-images-{date}"
          [] k = "rememberSettings" -> TRUE]

\* { ...a, ...b }
Spread(a, b) ==
    [k \in DOMAIN a \cup DOMAIN b |-> IF k \in DOMAIN b THEN b[k] ELSE a[k]]

\* The JSON literal of a property value: the boolean property as true or
\* false, a string in quotes
JSONliteral(k, v) ==
    IF k = "rememberSettings"
    THEN <<"boolean", IF v THEN "true" ELSE "false">>
    ELSE <<"string", v>>

\* The value a JSON literal denotes
JSONvalue(literal) ==
    IF literal[1] = "boolean" THEN literal[2] = "true" ELSE literal[2]

\* JSON.stringify of an object of preference properties
JSONstringify(obj) ==
    LET props == SelectSeq(PreferenceProperties, LAMBDA k : k \in DOMAIN obj)
    IN  [i \in 1..Len(props) |-> <<props[i], JSONliteral(props[i], obj[props[i]])>>]

\* JSON.parse of such a text
JSONparse(text) ==
    [k \in {text[i][1] : i \in 1..Len(text)} |->
        LET last == CHOOSE i \in 1..Len(text) :
                        /\ text[i][1] = k
                        /\ \A j \in (i + 1)..Len(text) : text[j][1] # k
        IN  JSONvalue(text[last][2])]

\* localStorage.getItem(key) is not null
hasItem(key) == key \in DOMAIN localStorage

\* localStorage.setItem(key, value)
setItem(key, value) ==
    [k \in DOMAIN localStorage \cup {key} |->
        IF k = key THEN value ELSE localStorage[k]]

\* localStorage.removeItem(key)
removeItem(key) == [k \in DOMAIN localStorage \ {key} |-> localStorage[k]]

\* parsed.property || fallback: the fallback for a missing or empty value
OrElse(parsed, property, fallback) ==
    IF property \in DOMAIN parsed /\ parsed[property] # ""
    THEN parsed[property] ELSE fallback

prefsFrame == <<images, sortBy, sortOrder, selectedImages, draggedImage,
                isConverting, loading, revoked, now, conv, convLog, proc>>

\* Variant of loadPreferences: the stored defaults are applied whether or
\* not rememberSettings is on.
loadPreferencesAlwaysApply ==
    /\ IF hasItem(PreferencesKey)
       THEN LET parsed == JSONparse(localStorage[PreferencesKey])
            IN  /\ preferences' = Spread(preferences, parsed)
                /\ pageSize' = OrElse(parsed, "defaultPageSize", "A4")
                /\ orientation' = OrElse(parsed, "defaultOrientation", "portrait")
                /\ quality' = OrElse(parsed, "defaultQuality", "high")
                /\ layout' = OrElse(parsed, "defaultLayout", "one-per-page")
       ELSE UNCHANGED <<preferences, pageSize, orientation, quality, layout>>
    /\ UNCHANGED <<localStorage, error, success, prefsFrame>>

\* loadPreferences (lines 75-93)
loadPreferences ==
    /\ IF hasItem(PreferencesKey)
       THEN LET parsed == JSONparse(localStorage[PreferencesKey])
            IN  /\ preferences' = Spread(preferences, parsed)
                /\ IF "rememberSettings" \in DOMAIN parsed
                      /\ parsed["rememberSettings"]
                   THEN /\ pageSize' = OrElse(parsed, "defaultPageSize", "A4")
                        /\ orientation' =
                              OrElse(parsed, "defaultOrientation", "portrait")
                        /\ quality' = OrElse(parsed, "defaultQuality", "high")
                        /\ layout' = OrElse(parsed, "defaultLayout", "one-per-page")
                   ELSE UNCHANGED <<pageSize, orientation, quality, layout>>
       ELSE UNCHANGED <<preferences, pageSize, orientation, quality, layout>>
    /\ UNCHANGED <<localStorage, error, success, prefsFrame>>

\* savePreferences (lines 96-106); stored: localStorage.setItem returned,
\* otherwise it threw (the quota is exceeded, the storage is denied)
savePreferences(newPreferences, stored) ==
    LET updated == Spread(preferences, newPreferences)
    IN  /\ preferences' = updated
        /\ IF stored
           THEN /\ localStorage' = setItem(PreferencesKey, JSONstringify(updated))
                /\ success' = <<"Preferences saved successfully">>
                /\ UNCHANGED error
           ELSE /\ error' = <<"Failed to save preferences">>
                /\ UNCHANGED <<localStorage, success>>
        /\ UNCHANGED <<pageSize, orientation, quality, layout, prefsFrame>>

\* resetPreferences (lines 109-121); removed: localStorage.removeItem
\* returned, otherwise it threw and the handler ended there
resetPreferences(removed) ==
    /\ preferences' = DefaultPreferences
    /\ IF removed
       THEN /\ localStorage' = removeItem(PreferencesKey)
            /\ success' = <<"Preferences reset to defaults">>
       ELSE UNCHANGED <<localStorage, success>>
    /\ UNCHANGED <<error, pageSize, orientation, quality, layout, prefsFrame>>

settingFrame == <<preferences, localStorage, error, success, prefsFrame>>

\* The Selects of lines 921, 935 and 950
setPageSize(value) ==
    /\ pageSize' = value
    /\ UNCHANGED <<orientation, quality, layout, settingFrame>>

setOrientation(value) ==
    /\ orientation' = value
    /\ UNCHANGED <<pageSize, quality, layout, settingFrame>>

setQuality(value) ==
    /\ quality' = value
    /\ UNCHANGED <<pageSize, orientation, layout, settingFrame>>

\* No pass of the converter over an image is in progress
ProcIdle == [pc |-> "idle"]

(***************************************************************************)
(* PDFConverter.  conv is the activation record of one convertToPDF call:  *)
(* status   idle | called | running | resolved | rejected                  *)
(* pc       loop (at the head of the for loop) | await (inside             *)
(*          `await this.processImage(image)`)                              *)
(* pages    the jsPDF document: a sequence of pages, each the sequence of  *)
(*          images added to it; addImage draws on the last page added      *)
(***************************************************************************)
ConvIdle ==
    [status |-> "idle", images |-> <<>>, layout |-> "one-per-page",
     pc |-> "loop", i |-> 0, pdfCreated |-> FALSE, pages |-> <<>>,
     currentPage |-> 0, imagesOnCurrentPage |-> 0, error |-> ""]

\* convertImagesToPDF(images, settings): new PDFConverter(settings).convertToPDF(images)
convertImagesToPDF(imgs, settings) ==
    [ConvIdle EXCEPT !.status = "called", !.images = imgs,
                     !.layout = settings.layout]

\* new jsPDF(...): a document with one empty page
createPDFDocument == <<<<>>>>

\* pdf.addPage(): appends a page, which becomes the current one
addPage(pages) == Append(pages, <<>>)

\* pdf.addImage(...): draws on the current (last) page
addImage(pages, placement) ==
    [pages EXCEPT ![Len(pages)] = Append(pages[Len(pages)], placement)]

\* Variant of convertToPDFEnter: the empty check is missing.
convertToPDFEnterNoCheck(c) ==
    [c EXCEPT !.status = "running", !.pdfCreated = TRUE,
              !.pages = createPDFDocument, !.pc = "loop", !.i = 0]

\* convertToPDF, lines 311-316: the empty check and the document creation
convertToPDFEnter(c) ==
    IF Len(c.images) = 0
    THEN [c EXCEPT !.status = "rejected",
                   !.error = "No images provided for conversion"]
    ELSE [c EXCEPT !.status = "running", !.pdfCreated = TRUE,
                   !.pages = createPDFDocument, !.pc = "loop", !.i = 0]

\* Variant of CanStartImage: the next image is taken up without awaiting the
\* one in progress.
CanStartImageNoAwait(c) ==
    c.status = "running" /\ c.i < Len(c.images)

\* The loop may take up image i only from the loop head: the previous
\* iteration's await has settled.
CanStartImage(c) ==
    c.status = "running" /\ c.pc = "loop" /\ c.i < Len(c.images)

\* convertMultiplePerPage, lines 437-444: before the try of iteration i
multiBeforeTry(c) ==
    IF c.imagesOnCurrentPage = 0
    THEN [c EXCEPT !.pages = IF c.i > 0 THEN addPage(c.pages) ELSE c.pages,
                   !.currentPage = c.currentPage + 1,
                   !.imagesOnCurrentPage = 0]
    ELSE c

\* The part of an iteration up to the await of processImage
iterationStart(c) ==
    LET d == IF c.layout = "one-per-page" THEN c ELSE multiBeforeTry(c)
    IN  [d EXCEPT !.pc = "await"]

\* Variant of onePerPageAdd: a page is added for the first image too.
onePerPageAddAlwaysPage(c, image) ==
    [c EXCEPT !.pages = addImage(addPage(c.pages), [id |-> image.id])]

\* convertOnePerPage, lines 388-399: the image was processed
onePerPageAdd(c, image) ==
    LET withPage == IF c.i > 0 THEN addPage(c.pages) ELSE c.pages
    IN  [c EXCEPT !.pages = addImage(withPage, [id |-> image.id])]

\* Variant of multiPerPageAdd: the counter is not reset when the page is full.
multiPerPageAddNoReset(c, image) ==
    LET col == c.imagesOnCurrentPage % cols
        row == c.imagesOnCurrentPage \div rows
    IN  [c EXCEPT !.pages = addImage(c.pages,
                                [id |-> image.id, col |-> col, row |-> row]),
                  !.imagesOnCurrentPage = c.imagesOnCurrentPage + 1]

\* convertMultiplePerPage, lines 450-474: the image was processed
multiPerPageAdd(c, image) ==
    LET col == c.imagesOnCurrentPage % cols
        row == c.imagesOnCurrentPage \div rows
        n   == c.imagesOnCurrentPage + 1
    IN  [c EXCEPT !.pages = addImage(c.pages,
                                [id |-> image.id, col |-> col, row |-> row]),
                  !.imagesOnCurrentPage = IF n >= cols * rows THEN 0 ELSE n]

\* Variant of iterationSettle: no try/catch, the rejection of processImage
\* leaves the loop and rejects the call.
iterationSettleNoCatch(c, ok) ==
    LET image == c.images[c.i + 1]
    IN  IF ~ok
        THEN [c EXCEPT !.status = "rejected", !.error = "Failed to load image"]
        ELSE [(IF c.layout = "one-per-page" THEN onePerPageAdd(c, image)
               ELSE multiPerPageAdd(c, image))
                  EXCEPT !.pc = "loop", !.i = c.i + 1]

\* The rest of iteration i once processImage settled: the try body when it
\* resolved (ok), the catch when it rejected; then i++.
iterationSettle(c, ok) ==
    LET image == c.images[c.i + 1]
        d == IF ~ok THEN c
             ELSE IF c.layout = "one-per-page" THEN onePerPageAdd(c, image)
             ELSE multiPerPageAdd(c, image)
    IN  [d EXCEPT !.pc = "loop", !.i = c.i + 1]

\* imageToCanvas can resolve only when the image loads: the file decodes and
\* its object URL is still alive; it may reject even then (no 2d context).
canLoad(image) == image.file.loadable /\ image.preview \notin revoked

\* convertToPDF, line 325: pdf.output('blob')
convertToPDFReturn(c) == [c EXCEPT !.status = "resolved"]

ConverterEnter ==
    /\ conv.status = "called"
    /\ conv' = convertToPDFEnter(conv)
    /\ UNCHANGED <<uiVars, convLog>>

ImageStart ==
    /\ CanStartImage(conv)
    /\ conv' = iterationStart(conv)
    /\ convLog' = Append(convLog, <<"start", conv.images[conv.i + 1].id>>)
    /\ UNCHANGED uiVars

ImageSettle ==
    /\ conv.status = "running" /\ conv.pc = "await"
    /\ \E ok \in BOOLEAN :
          /\ ok => canLoad(conv.images[conv.i + 1])
          /\ conv' = iterationSettle(conv, ok)
          /\ convLog' = Append(convLog,
                 <<IF ok THEN "added" ELSE "skipped", conv.images[conv.i + 1].id>>)
    /\ UNCHANGED uiVars

ConverterReturn ==
    /\ conv.status = "running" /\ conv.pc = "loop" /\ conv.i >= Len(conv.images)
    /\ conv' = convertToPDFReturn(conv)
    /\ UNCHANGED <<uiVars, convLog>>

(***************************************************************************)
(* One pass of the converter over an image: processImage (imageToCanvas,   *)
(* rotateCanvas, adjustBrightnessContrast) and, in the one-per-page        *)
(* layout, the placement of the resulting canvas on the page.              *)
(*                                                                         *)
(* A canvas is its width, its height and its pixels in row order, each     *)
(* pixel <<R, G, B, A>> as getImageData reads it.  proc is the activation  *)
(* record of the pass:                                                     *)
(* pc       called | loaded | rotated | processed | placed | rejected      *)
(* decoded  the bitmap the browser decodes from image.preview              *)
(* rotate, adjust   what the two if statements of processImage did         *)
(* Lengths on the page are in tenths of a millimetre, which makes every    *)
(* page dimension of getPageDimensions an integer (215.9 mm is 2159), and  *)
(* the results of the divisions are fractions num / den, not rounded.      *)
(***************************************************************************)
Abs(n) == IF n < 0 THEN -n ELSE n

\* The largest power of two that is at most n (n >= 1): 2 ^ floor(log2 n)
RECURSIVE Pow2Floor(_)
Pow2Floor(n) == IF n < 2 THEN 1 ELSE 2 * Pow2Floor(n \div 2)

\* rotateCanvas, lines 511-513.  Math.PI is not pi, so of Math.cos(radians)
\* and Math.sin(radians) the one that would be 0 at a right angle is a small
\* number instead, and the other is exactly 1 in absolute value:
\*     |cos(90 * PI / 180)|  = 6.123233995736766e-17  = 0.55153.. * 2^-53
\*     |sin(180 * PI / 180)| = 1.2246467991473532e-16 = 1.10306.. * 2^-53
\*     |cos(270 * PI / 180)| = 1.8369701987210297e-16 = 1.65459.. * 2^-53
\* (the same for the negative angles).  TinyTrig is that number in units of
\* 2^-53 / TrigScale.
TrigScale == 100000

TinyTrig(degrees) ==
    CASE Abs(degrees) = 90 -> 55153
      [] Abs(degrees) = 180 -> 110306
      [] Abs(degrees) = 270 -> 165460

\* Math.ceil(whole * 1 + n * tiny) in double arithmetic, whole and n
\* positive integers: the sum rounds to the double after `whole`, and the
\* ceiling is whole + 1, when n * tiny exceeds half the spacing of the
\* doubles at `whole`, which is Pow2Floor(whole) * 2^-53; otherwise the sum
\* rounds to `whole`.
CeilOfSum(whole, n, tiny) ==
    IF n * tiny > Pow2Floor(whole) * TrigScale THEN whole + 1 ELSE whole

\* rotateCanvas, lines 515-516: newWidth and newHeight
rotatedWidth(canvas, degrees) ==
    IF Abs(degrees) = 180
    THEN CeilOfSum(canvas.width, canvas.height, TinyTrig(degrees))
    ELSE CeilOfSum(canvas.height, canvas.width, TinyTrig(degrees))

rotatedHeight(canvas, degrees) ==
    IF Abs(degrees) = 180
    THEN CeilOfSum(canvas.height, canvas.width, TinyTrig(degrees))
    ELSE CeilOfSum(canvas.width, canvas.height, TinyTrig(degrees))

\* Variant of rotateCanvas: the sides are swapped whatever the angle.
rotateCanvasAlwaysSwap(canvas, degrees, context, raster) ==
    IF ~context THEN canvas
    ELSE [width |-> canvas.height, height |-> canvas.width, data |-> raster]

\* rotateCanvas (lines 506-536).  context: the new canvas gave a 2d context
\* (otherwise the canvas is returned as it came); raster: the pixels that
\* drawImage under the rotation leaves on the new canvas.
rotateCanvas(canvas, degrees, context, raster) ==
    IF ~context THEN canvas
    ELSE [width |-> rotatedWidth(canvas, degrees),
          height |-> rotatedHeight(canvas, degrees),
          data |-> raster]

\* Storing a number in a Uint8ClampedArray: num / den clamped to 0..255 and
\* rounded to the nearest integer, a tie to the even one (den > 0)
toUint8Clamped(num, den) ==
    LET q == num \div den
        r == num % den
    IN  IF num <= 0 THEN 0
        ELSE IF num >= 255 * den THEN 255
        ELSE IF 2 * r < den THEN q
        ELSE IF 2 * r > den THEN q + 1
        ELSE IF q % 2 = 0 THEN q ELSE q + 1

\* lines 554 and 559-561: data[i] = clamp(data[i] * (1 + brightness / 100))
applyBrightness(v, brightness) == toUint8Clamped(v * (100 + brightness), 100)

\* lines 555 and 564-566: data[i] = clamp((data[i] - 128) * (1 + contrast / 100) + 128)
applyContrast(v, contrast) ==
    toUint8Clamped((v - 128) * (100 + contrast) + 128 * 100, 100)

\* putImageData / drawImage: the canvas keeps its pixels with the colours
\* multiplied by alpha.  An opaque pixel is kept as it is and a fully
\* transparent one loses its colours; the pixels of the model are of these
\* two kinds.
canvasPixel(p) == IF p[4] = 0 THEN <<0, 0, 0, 0>> ELSE p

\* Variant of adjustPixel: contrast is applied before brightness.
adjustPixelContrastFirst(p, brightness, contrast) ==
    <<applyBrightness(applyContrast(p[1], contrast), brightness),
      applyBrightness(applyContrast(p[2], contrast), brightness),
      applyBrightness(applyContrast(p[3], contrast), brightness),
      p[4]>>

\* lines 557-567: one turn of the loop, the pixel at data[i .. i + 3]
adjustPixel(p, brightness, contrast) ==
    <<applyContrast(applyBrightness(p[1], brightness), contrast),
      applyContrast(applyBrightness(p[2], brightness), contrast),
      applyContrast(applyBrightness(p[3], brightness), contrast),
      p[4]>>

\* adjustBrightnessContrast (lines 541-573); the context of a canvas that
\* was drawn on is there
adjustBrightnessContrast(canvas, brightness, contrast) ==
    [canvas EXCEPT !.data =
        [i \in 1..Len(canvas.data) |->
            canvasPixel(adjustPixel(canvas.data[i], brightness, contrast))]]

\* imageToCanvas, lines 583-598: the canvas takes the size of the image and
\* the image is drawn on it
imageToCanvas(decoded) ==
    [width |-> decoded.width, height |-> decoded.height,
     data |-> [i \in 1..Len(decoded.data) |-> canvasPixel(decoded.data[i])]]

\* getPageDimensions (lines 345-362), in tenths of a millimetre
getPageDimensions(settings) ==
    LET portrait ==
            CASE settings.pageSize = "A4" -> [width |-> 2100, height |-> 2970]
              [] settings.pageSize = "Letter" -> [width |-> 2159, height |-> 2794]
              [] settings.pageSize = "Legal" -> [width |-> 2159, height |-> 3556]
              [] OTHER -> [width |-> 2100, height |-> 2970]
    IN  IF settings.orientation = "portrait" THEN portrait
        ELSE [width |-> portrait.height, height |-> portrait.width]

\* convertOnePerPage, line 369: 20 mm
margin == 200

Frac(num, den) == [num |-> num, den |-> den]

\* Variant of calculateImageDimensions: the height is not checked.
calculateImageDimensionsWidthOnly(imgWidth, imgHeight, maxWidth, maxHeight) ==
    [width |-> Frac(maxWidth, 1), height |-> Frac(maxWidth * imgHeight, imgWidth)]

\* calculateImageDimensions (lines 609-626): height = maxWidth / (imgWidth /
\* imgHeight), and when that exceeds maxHeight, width = maxHeight * (imgWidth /
\* imgHeight)
calculateImageDimensions(imgWidth, imgHeight, maxWidth, maxHeight) ==
    IF maxWidth * imgHeight > maxHeight * imgWidth
    THEN [width |-> Frac(maxHeight * imgWidth, imgHeight),
          height |-> Frac(maxHeight, 1)]
    ELSE [width |-> Frac(maxWidth, 1),
          height |-> Frac(maxWidth * imgHeight, imgWidth)]

\* margin + (max - size) / 2 (lines 394-395)
centred(max, size) == Frac(2 * margin * size.den + max * size.den - size.num,
                           2 * size.den)

\* convertOnePerPage, lines 368-371 and 381-399: the arguments of addImage
placeOnePerPage(settings, canvas) ==
    LET pageDimensions == getPageDimensions(settings)
        maxWidth == pageDimensions.width - (margin * 2)
        maxHeight == pageDimensions.height - (margin * 2)
        size == calculateImageDimensions(canvas.width, canvas.height,
                                         maxWidth, maxHeight)
    IN  [x |-> centred(maxWidth, size.width),
         y |-> centred(maxHeight, size.height),
         width |-> size.width, height |-> size.height]

\* convertOnePerPage calls processImage(image) under the settings
processCall(settings, image, decoded) ==
    [pc |-> "called", settings |-> settings, image |-> image,
     decoded |-> decoded, canvas |-> [width |-> 0, height |-> 0, data |-> <<>>],
     rotate |-> "pending", adjust |-> "pending",
     placement |-> [x |-> Frac(0, 1), y |-> Frac(0, 1),
                    width |-> Frac(0, 1), height |-> Frac(0, 1)]]

procFrame == <<images, sortBy, sortOrder, layout, selectedImages, draggedImage,
               error, success, isConverting, loading, revoked, now, conv,
               convLog, settingsVars>>

\* line 488: the await of imageToCanvas settles
processLoad(ok) ==
    /\ proc.pc = "called"
    /\ ok => canLoad(proc.image)
    /\ proc' = IF ok
               THEN [proc EXCEPT !.pc = "loaded",
                                 !.canvas = imageToCanvas(proc.decoded)]
               ELSE [proc EXCEPT !.pc = "rejected"]
    /\ UNCHANGED procFrame

\* lines 491-493
processRotate(context, raster) ==
    /\ proc.pc = "loaded"
    /\ proc' = IF proc.image.rotation # 0
               THEN [proc EXCEPT
                        !.pc = "rotated",
                        !.rotate = IF context THEN "done" ELSE "no context",
                        !.canvas = rotateCanvas(proc.canvas, proc.image.rotation,
                                                context, raster)]
               ELSE [proc EXCEPT !.pc = "rotated", !.rotate = "skipped"]
    /\ UNCHANGED procFrame

\* lines 496-500
processAdjust ==
    /\ proc.pc = "rotated"
    /\ proc' = IF proc.image.brightness # 0 \/ proc.image.contrast # 0
               THEN [proc EXCEPT
                        !.pc = "processed", !.adjust = "done",
                        !.canvas = adjustBrightnessContrast(proc.canvas,
                                      proc.image.brightness, proc.image.contrast)]
               ELSE [proc EXCEPT !.pc = "processed", !.adjust = "skipped"]
    /\ UNCHANGED procFrame

\* convertOnePerPage, lines 381-399
processPlace ==
    /\ proc.pc = "processed"
    /\ proc' = [proc EXCEPT !.pc = "placed",
                            !.placement = placeOnePerPage(proc.settings, proc.canvas)]
    /\ UNCHANGED procFrame

(***************************************************************************)
(* The page's convertToPDF (lines 436-487).                                *)
(***************************************************************************)
\* Variant of imagesForConversion: the stored list is taken as it is.
imagesForConversionStored(sorted) ==
    [k \in 1..Len(images) |->
        [id |-> images[k].id, file |-> images[k].file,
         preview |-> images[k].preview, name |-> images[k].name,
         dimensions |-> images[k].dimensions, rotation |-> images[k].rotation,
         brightness |-> images[k].brightness, contrast |-> images[k].contrast]]

\* lines 445-454: sortedImages().map(img => ({...}))
imagesForConversion(sorted) ==
    [k \in 1..Len(sorted) |->
        [id |-> sorted[k].id, file |-> sorted[k].file,
         preview |-> sorted[k].preview, name |-> sorted[k].name,
         dimensions |-> sorted[k].dimensions, rotation |-> sorted[k].rotation,
         brightness |-> sorted[k].brightness, contrast |-> sorted[k].contrast]]

\* lines 436-465: up to the await of convertImagesToPDF.  The button is
\* disabled while a conversion runs or the list is empty.
convertToPDF ==
    /\ ~isConverting /\ conv.status = "idle"
    /\ Len(images) # 0
    /\ isConverting' = TRUE
    /\ error' = NoMessage
    /\ success' = NoMessage
    /\ LET call == sortedImagesCall(images, sortBy, sortOrder)
       IN  /\ images' = call.stored
           /\ conv' = convertImagesToPDF(imagesForConversion(call.result),
                                         [layout |-> layout])
    /\ convLog' = <<>>
    /\ UNCHANGED <<settingsVars, proc, sortBy, sortOrder, layout,
                   selectedImages, draggedImage,
                   loading, revoked, now>>

\* lines 467-486: the await has settled.  images.length is the length of the
\* list the conversion was started with.
convertToPDFSettled ==
    /\ isConverting /\ conv.status \in {"resolved", "rejected"}
    /\ IF conv.status = "resolved"
       THEN /\ success' = <<"Successfully converted", Len(conv.images)>>
            /\ UNCHANGED error
       ELSE /\ error' = <<"PDF conversion failed:", conv.error>>
            /\ UNCHANGED success
    /\ isConverting' = FALSE
    /\ conv' = ConvIdle
    /\ convLog' = <<>>
    /\ UNCHANGED <<settingsVars, proc, images, sortBy, sortOrder, layout,
                   selectedImages,
                   draggedImage, loading, revoked, now>>

(***************************************************************************)
(* SpecConvert: convertImagesToPDF called on its own, with every list of   *)
(* up to MaxConv images (at most one of them undecodable) and either       *)
(* layout.                                                                 *)
(***************************************************************************)
GoodFile == MkFile("a.png", "image", 1024, TRUE, 4, 3)
BadFile  == MkFile("a.png", "image", 1024, FALSE, 0, 0)

ConvInputs ==
    { [k \in 1..n |-> MkImageData(k, IF k = bad THEN BadFile ELSE GoodFile)] :
          n \in 0..MaxConv, bad \in 0..MaxConv }

\* The page as the component's useState calls leave it (lines 45-70), with
\* nothing in the browser's storage
PageStateInit ==
    /\ pageSize = "A4"
    /\ orientation = "portrait"
    /\ quality = "high"
    /\ preferences = DefaultPreferences
    /\ localStorage = <<>>
    /\ images = <<>>
    /\ sortBy = "custom"
    /\ sortOrder = "asc"
    /\ layout = "one-per-page"
    /\ selectedImages = {}
    /\ draggedImage = NoId
    /\ error = NoMessage
    /\ success = NoMessage
    /\ isConverting = FALSE
    /\ loading = {}
    /\ revoked = {}
    /\ now = 0

UiInit ==
    /\ PageStateInit
    /\ proc = ProcIdle

InitConvert ==
    /\ UiInit
    /\ \E imgs \in ConvInputs, l \in Layouts :
          conv = convertImagesToPDF(imgs, [layout |-> l])
    /\ convLog = <<>>

NextConvert ==
    \/ ConverterEnter
    \/ ImageStart
    \/ ImageSettle
    \/ ConverterReturn

SpecConvert == InitConvert /\ [][NextConvert]_vars

(***************************************************************************)
(* SpecEdit: the page with up to MaxEdit images of one kind, edited with   *)
(* every control of the edit panel.                                        *)
(***************************************************************************)
\* FileLists of 1..n files drawn from the set files
BatchesOf(files, n) == UNION {[1..k -> files] : k \in 1..n}

\* The buttons of lines 817-833
RotateButtons == {-90, 90, 180}

\* Values handed to the brightness and contrast handlers: the ends of the
\* sliders, their centre, and the first values beyond either end
AdjustInputs == {MinAdjust - 1, MinAdjust, 0, MaxAdjust, MaxAdjust + 1}

InitPage ==
    /\ UiInit
    /\ conv = ConvIdle
    /\ convLog = <<>>

EditUpload ==
    \E files \in BatchesOf({GoodFile}, MaxBatch) :
        /\ Len(images) + Len(files) <= MaxEdit
        /\ handleFileSelect(files)

EditRotate == \E img \in Range(images), d \in RotateButtons :
                  rotateImageHandler(img.id, d)
EditResetRotation == \E img \in Range(images) : resetRotation(img)
EditBrightness == \E img \in Range(images), v \in AdjustInputs :
                      adjustBrightnessHandler(img.id, v)
EditContrast == \E img \in Range(images), v \in AdjustInputs :
                    adjustContrastHandler(img.id, v)
EditResetAll == \E img \in Range(images) : resetAll(img)

NextEdit ==
    \/ EditUpload
    \/ EditRotate
    \/ EditResetRotation
    \/ EditBrightness
    \/ EditContrast
    \/ EditResetAll

SpecEdit == InitPage /\ [][NextEdit]_vars

(***************************************************************************)
(* SpecAdjust: SpecEdit with the 180-degree button as the only rotation    *)
(* button, which keeps the rotations of an image to 0 and 180.             *)
(***************************************************************************)
AdjustRotate == \E img \in Range(images) : rotateImageHandler(img.id, 180)

NextAdjust ==
    \/ EditUpload
    \/ AdjustRotate
    \/ EditResetRotation
    \/ EditBrightness
    \/ EditContrast
    \/ EditResetAll

SpecAdjust == InitPage /\ [][NextAdjust]_vars

(***************************************************************************)
(* SpecLimit: the list around the session limit.  The list is filled by    *)
(* one large selection and then changed in small steps that keep it within *)
(* LimitFloor..MaxImages: selections of valid files of one kind, alone or  *)
(* followed by a text file; removals and drags of the first two cards of   *)
(* the displayed list; at most MaxRevoked removals.                        *)
(***************************************************************************)
TextFile == MkFile("notes.txt", "text", 1024, TRUE, 0, 0)

LimitFloor == MaxImages - MaxBatch - 1
LimitLengths == {1, MaxBatch, LimitFloor, MaxImages + 1}

LimitBatches ==
    {[k \in 1..n |-> GoodFile] : n \in LimitLengths}
        \cup {<<GoodFile, TextFile>>}

\* The first two cards of the displayed list
FirstCards ==
    {sortedImages[k].id : k \in 1..Min(2, Len(images))}

LimitUpload ==
    \E files \in LimitBatches :
        /\ Len(images) + Len(files) >= LimitFloor
        /\ handleFileSelect(files)

LimitRemove ==
    /\ Len(images) > LimitFloor
    /\ Cardinality(revoked) < MaxRevoked
    /\ \E id \in FirstCards : removeImage(id)

LimitDragStart == \E id \in FirstCards : handleImageDragStart(id)
LimitDrop == \E id \in FirstCards : handleImageDrop(id)

NextLimit ==
    \/ LimitUpload
    \/ LimitRemove
    \/ LimitDragStart
    \/ LimitDrop

SpecLimit == InitPage /\ [][NextLimit]_vars

(***************************************************************************)
(* SpecSort: the page with up to MaxList images of three kinds that every  *)
(* sort key orders differently, uploaded at different times, measured as   *)
(* they load, and sorted.                                                  *)
(***************************************************************************)
\*                 name     type     size         decodes  width height
FileA == MkFile("a.png", "image", 2048,        TRUE,    1,    1)
FileB == MkFile("B.png", "image", MaxFileSize, TRUE,    3,    2)
FileC == MkFile("c.png", "image", 1024,        TRUE,    2,    2)

SortFiles == {FileA, FileB, FileC}

Cards == Range(Ids(images))

SortUpload ==
    \E files \in BatchesOf(SortFiles, MaxBatch) :
        /\ Len(images) + Len(files) <= MaxList
        /\ handleFileSelect(files)

PageOnload == \E img \in loading : imageOnload(img)
PageOnerror == \E img \in loading : imageOnerror(img)

PageRemove ==
    /\ Cardinality(revoked) < MaxRevoked
    /\ \E id \in Cards : removeImage(id)

PageDragStart == \E id \in Cards : handleImageDragStart(id)
PageDrop == \E id \in Cards : handleImageDrop(id)
PageSetSortBy == \E value \in SortOptions : setSortBy(value)

NextSort ==
    \/ SortUpload
    \/ PageOnload
    \/ PageSetSortBy
    \/ toggleSortOrder
    \/ Tick

SpecSort == InitPage /\ [][NextSort]_vars

(***************************************************************************)
(* SpecPage: the page with up to MaxPage images of two kinds, sorted,      *)
(* removed (at most MaxRevoked of them) and converted in either layout.    *)
(* While a conversion runs the only change made to the list is removal,    *)
(* the one change that reaches the conversion (through the revoked URL).   *)
(***************************************************************************)
PageUpload ==
    /\ ~isConverting
    /\ \E files \in BatchesOf({FileA, FileC}, MaxBatch) :
          /\ Len(images) + Len(files) <= MaxPage
          /\ handleFileSelect(files)

PageSort ==
    /\ ~isConverting
    /\ PageSetSortBy \/ toggleSortOrder

PageSetLayout ==
    /\ ~isConverting
    /\ \E value \in Layouts : setLayout(value)

NextPage ==
    \/ PageUpload
    \/ PageRemove
    \/ PageSort
    \/ PageSetLayout
    \/ convertToPDF
    \/ ConverterEnter
    \/ ImageStart
    \/ ImageSettle
    \/ ConverterReturn
    \/ convertToPDFSettled

SpecPage == InitPage /\ [][NextPage]_vars

(***************************************************************************)
(* SpecUpload: the page with up to MaxList images, selections drawing on   *)
(* valid files and on files of each invalid kind: a text file, an image    *)
(* one byte over the size limit, and an image whose bytes do not decode.   *)
(***************************************************************************)
HugeFile == MkFile("huge.png", "image", MaxFileSize + 1, TRUE, 9, 9)
CorruptFile == MkFile("bad.png", "image", 1024, FALSE, 0, 0)

UploadFiles == {FileA, FileB, TextFile, HugeFile, CorruptFile}

UploadSelect ==
    \E files \in BatchesOf(UploadFiles, MaxBatch) :
        /\ Len(images) + Len(files) <= MaxList
        /\ handleFileSelect(files)

NextUpload ==
    \/ UploadSelect
    \/ PageOnload
    \/ PageOnerror
    \/ PageRemove

SpecUpload == InitPage /\ [][NextUpload]_vars

(***************************************************************************)
(* SpecReorder: the page with up to MaxList images of one kind in custom   *)
(* order: uploads, removals (at most MaxRemoved) and drags of any card     *)
(* onto any card.                                                          *)
(***************************************************************************)
ReorderUpload ==
    \E files \in BatchesOf({GoodFile}, MaxBatch) :
        /\ Len(images) + Len(files) <= MaxList
        /\ handleFileSelect(files)

ReorderRemove ==
    /\ Cardinality(revoked) < MaxRemoved
    /\ \E id \in Cards : removeImage(id)

NextReorder ==
    \/ ReorderUpload
    \/ ReorderRemove
    \/ PageDragStart
    \/ PageDrop

SpecReorder == InitPage /\ [][NextReorder]_vars

(***************************************************************************)
(* SpecRemove: the page with up to MaxPage images of one kind, which load  *)
(* or, once removed, fail to load; cards are selected, removed one by one  *)
(* and removed as a selection, at most MaxRemoved in all, and new images   *)
(* are uploaded in between.                                                *)
(***************************************************************************)
RemoveUpload ==
    \E files \in BatchesOf({FileA}, MaxBatch) :
        /\ Len(images) + Len(files) <= MaxPage
        /\ handleFileSelect(files)

RemoveToggle == \E id \in Cards : toggleImageSelection(id)

RemoveOne ==
    /\ Cardinality(revoked) < MaxRemoved
    /\ \E id \in Cards : removeImage(id)

RemoveSelected ==
    /\ selectedImages # {}
    /\ Cardinality(revoked) + Cardinality(selectedImages) <= MaxRemoved
    /\ removeSelectedImages

NextRemove ==
    \/ RemoveUpload
    \/ PageOnload
    \/ PageOnerror
    \/ RemoveToggle
    \/ RemoveOne
    \/ RemoveSelected

SpecRemove == InitPage /\ [][NextRemove]_vars

(***************************************************************************)
(* SpecPrefs: the settings and the preferences dialog.  Every control of   *)
(* the dialog saves one property, set to a value other than the initial    *)
(* one (Reset to Defaults brings the initial ones back); the storage takes *)
(* the entry or refuses it; page size and layout are set by hand; the page *)
(* is loaded again, which starts the component afresh and then runs        *)
(* loadPreferences (the effect of lines 124-126).                          *)
(***************************************************************************)
\* What the controls of the dialog hand to savePreferences (lines 1011-1104)
PreferenceInputs ==
    { "defaultPageSize" :> "Legal",
      "defaultOrientation" :> "landscape",
      "defaultQuality" :> "low",
      "defaultLayout" :> "multiple-per-page",
      "customFilename" :> "true",
      "rememberSettings" :> FALSE,
      "rememberSettings" :> TRUE }

PrefSave == \E p \in PreferenceInputs, stored \in BOOLEAN : savePreferences(p, stored)
PrefLoad == loadPreferences
PrefReset == \E removed \in BOOLEAN : resetPreferences(removed)
PrefSetPageSize == setPageSize("Letter")
PrefSetLayout == \E value \in Layouts : setLayout(value)

\* The page is loaded again: the component's state starts afresh, the
\* storage stays
Remount ==
    /\ pageSize' = "A4"
    /\ orientation' = "portrait"
    /\ quality' = "high"
    /\ layout' = "one-per-page"
    /\ preferences' = DefaultPreferences
    /\ error' = NoMessage
    /\ success' = NoMessage
    /\ UNCHANGED <<localStorage, prefsFrame>>

NextPrefs ==
    \/ PrefSave
    \/ PrefLoad
    \/ PrefReset
    \/ PrefSetPageSize
    \/ PrefSetLayout
    \/ Remount

SpecPrefs == InitPage /\ [][NextPrefs]_vars

(***************************************************************************)
(* SpecProcess: processImage and the placement, for every image of up to   *)
(* MaxSide x MaxSide pixels of two kinds (opaque, fully transparent), at   *)
(* every rotation the page can store for it and at brightness and contrast *)
(* levels whose factors (0, 0.5, 1, 1.5, 2) are exact doubles.             *)
(* SpecPlace: the same pass for opaque images of up to MaxDim x MaxDim     *)
(* pixels, unrotated or turned by 90 degrees, under every page size and    *)
(* orientation.                                                            *)
(***************************************************************************)
MaxSide == 2
MaxDim == 4

\* A decoded pixel: opaque, or fully transparent with its colours still set
Pixels == {<<200, 128, 3, 255>>, <<9, 9, 9, 0>>}

\* Bitmaps of n pixels: one pixel, then n - 1 alike
Rasters(n) == {[i \in 1..n |-> IF i = 1 THEN p ELSE q] : p, q \in Pixels}

\* What drawImage can leave on a canvas of n pixels
CanvasRasters(n) ==
    {[i \in 1..n |-> canvasPixel(raster[i])] : raster \in Rasters(n)}

\* The rotations rotateImageHandler stores from the buttons -90, 90, 180
Rotations == {0, 90, 180, 270, -90}

AdjustLevels == {-100, -50, 0, 50, 100}

PDFSettings == [pageSize : PageSizes, orientation : Orientations,
                quality : {"high"}, layout : {"one-per-page"}]

ImageOf(w, h, rotation, brightness, contrast) ==
    [MkImageData(1, MkFile("a.png", "image", 1024, TRUE, w, h))
        EXCEPT !.rotation = rotation, !.brightness = brightness,
               !.contrast = contrast]

InitProcess ==
    /\ PageStateInit
    /\ conv = ConvIdle
    /\ convLog = <<>>
    /\ \E w, h \in 1..MaxSide, rotation \in Rotations,
          brightness, contrast \in AdjustLevels :
          \E data \in Rasters(w * h) :
             proc = processCall(
                       [pageSize |-> pageSize, orientation |-> orientation,
                        quality |-> quality, layout |-> layout],
                       ImageOf(w, h, rotation, brightness, contrast),
                       [width |-> w, height |-> h, data |-> data])

InitPlace ==
    /\ PageStateInit
    /\ conv = ConvIdle
    /\ convLog = <<>>
    /\ \E w, h \in 1..MaxDim, rotation \in {0, 90}, settings \in PDFSettings :
          proc = processCall(settings, ImageOf(w, h, rotation, 0, 0),
                             [width |-> w, height |-> h,
                              data |-> [i \in 1..(w * h) |-> <<200, 128, 3, 255>>]])

ProcessLoad == \E ok \in BOOLEAN : processLoad(ok)

ProcessRotate ==
    /\ proc.pc = "loaded"
    /\ IF proc.image.rotation = 0
       THEN processRotate(TRUE, <<>>)
       ELSE \E context \in BOOLEAN :
               \E raster \in CanvasRasters(
                       rotatedWidth(proc.canvas, proc.image.rotation)
                         * rotatedHeight(proc.canvas, proc.image.rotation)) :
                  processRotate(context, raster)

NextProcess ==
    \/ ProcessLoad
    \/ ProcessRotate
    \/ processAdjust
    \/ processPlace

SpecProcess == InitProcess /\ [][NextProcess]_vars

SpecPlace == InitPlace /\ [][NextProcess]_vars

(***************************************************************************)
(* Spec: the whole page, every handler with every input of the bounded     *)
(* sets.  The specifications above are this one with fewer handlers and    *)
(* narrower inputs.                                                        *)
(***************************************************************************)
Init == InitPage

AnyUpload ==
    \E files \in BatchesOf(UploadFiles \cup SortFiles, MaxBatch) :
        /\ Len(images) + Len(files) <= MaxPage \/ tooManyFiles(images, files)
        /\ handleFileSelect(files)

AnyToggleSelection == \E id \in Cards : toggleImageSelection(id)

AnyRemoveSelected ==
    /\ Cardinality(revoked) + Cardinality(selectedImages) <= MaxRevoked
    /\ removeSelectedImages

Next ==
    \/ AnyUpload
    \/ PageOnload
    \/ PageOnerror
    \/ PageRemove
    \/ AnyToggleSelection
    \/ AnyRemoveSelected
    \/ PageDragStart
    \/ PageDrop
    \/ PageSetSortBy
    \/ toggleSortOrder
    \/ PageSetLayout
    \/ EditRotate
    \/ EditResetRotation
    \/ EditBrightness
    \/ EditContrast
    \/ EditResetAll
    \/ Tick
    \/ convertToPDF
    \/ ConverterEnter
    \/ ImageStart
    \/ ImageSettle
    \/ ConverterReturn
    \/ convertToPDFSettled

Spec == Init /\ [][Next]_vars

(***************************************************************************)
(* Reading the conversion's history and document.                          *)
(***************************************************************************)
RECURSIVE Flatten(_)
Flatten(pages) ==
    IF pages = <<>> THEN <<>> ELSE Head(pages) \o Flatten(Tail(pages))

IsSettle(e) == e[1] \in {"added", "skipped"}
IsAdded(e) == e[1] = "added"
IsSkipped(e) == e[1] = "skipped"
EventId(e) == e[2]

SettledIds == [k \in 1..Len(SelectSeq(convLog, IsSettle)) |->
                   EventId(SelectSeq(convLog, IsSettle)[k])]
AddedIds == [k \in 1..Len(SelectSeq(convLog, IsAdded)) |->
                 EventId(SelectSeq(convLog, IsAdded)[k])]
SkippedIds == {EventId(convLog[k]) : k \in {j \in 1..Len(convLog) : IsSkipped(convLog[j])}}
PlacedIds == Ids(Flatten(conv.pages))

ConvStep == ConverterEnter \/ ImageStart \/ ImageSettle \/ ConverterReturn

CeilDiv(a, b) == (a + b - 1) \div b

(***************************************************************************)
(* C1.  In either layout a failure to process an image (load error, no     *)
(* canvas context) is caught: the image is left out of the PDF, the loop   *)
(* goes on to the later images, and the call resolves instead of           *)
(* rejecting.  Stated on every state of a call on a non-empty list: no     *)
(* skipped image is in the document, the call is never rejected, while it  *)
(* runs it can always take its next step, and once it has resolved every   *)
(* input image was taken up and either added or skipped.                   *)
(***************************************************************************)
C1_FailureSkipsImage ==
    (Len(conv.images) > 0 /\ conv.status \in {"running", "resolved", "rejected"}) =>
        /\ \A id \in SkippedIds : id \notin Range(PlacedIds)
        /\ conv.status # "rejected"
        /\ conv.status = "running" => ENABLED ConvStep
        /\ conv.status = "resolved" => SettledIds = Ids(conv.images)

\* A resolved call in which an image was skipped and a later one added.
C1_Witness ==
    /\ conv.status = "resolved"
    /\ \E j, k \in 1..Len(convLog) :
          j < k /\ IsSkipped(convLog[j]) /\ IsAdded(convLog[k])

(***************************************************************************)
(* C5.  convertToPDF on an empty list rejects with 'No images provided for *)
(* conversion' and creates no PDF document; on a non-empty list it creates *)
(* the document, is never rejected and runs on until it resolves.          *)
(***************************************************************************)
C5_EmptyRejects ==
    conv.status \in {"running", "resolved", "rejected"} =>
        IF Len(conv.images) = 0
        THEN /\ conv.status = "rejected"
             /\ conv.error = "No images provided for conversion"
             /\ ~conv.pdfCreated /\ conv.pages = <<>>
        ELSE /\ conv.status \in {"running", "resolved"}
             /\ conv.error = ""
             /\ conv.pdfCreated /\ Len(conv.pages) >= 1
             /\ conv.status = "running" => ENABLED ConvStep

\* The call on the empty list has been rejected.
C5_Witness ==
    /\ conv.status = "rejected"
    /\ conv.images = <<>>
    /\ conv.error = "No images provided for conversion"

(***************************************************************************)
(* C6.  One image per page: as long as no image has failed, the document   *)
(* has one page per image added so far (one empty page before the first),  *)
(* page k holds exactly the k-th input image, and a resolved call on n     *)
(* images has exactly n pages.                                             *)
(***************************************************************************)
C6_OnePagePerImage ==
    (conv.layout = "one-per-page" /\ conv.status \in {"running", "resolved"}
        /\ SkippedIds = {}) =>
        /\ Len(conv.pages) = Max(1, Len(AddedIds))
        /\ \A k \in 1..Len(AddedIds) :
              conv.pages[k] = <<[id |-> conv.images[k].id]>>
        /\ conv.status = "resolved" => Len(conv.pages) = Len(conv.images)

\* A resolved one-per-page call on at least three images, none skipped.
C6_Witness ==
    /\ conv.layout = "one-per-page" /\ conv.status = "resolved"
    /\ Len(conv.images) >= 3 /\ SkippedIds = {}
    /\ Len(conv.pages) = Len(conv.images)

(***************************************************************************)
(* C7.  Several images per page: every page holds at most 4 images, the    *)
(* k-th image of a page (k = 0..3) is in column k mod 2 and row k div 2,   *)
(* no two images of a page share a cell, the images are in input order,    *)
(* and a resolved call in which all n images succeeded has ceil(n / 4)     *)
(* pages, all full but possibly the last.                                  *)
(***************************************************************************)
C7_GridLayout ==
    (conv.layout = "multiple-per-page" /\ conv.status \in {"running", "resolved"}) =>
        /\ \A p \in 1..Len(conv.pages) :
              /\ Len(conv.pages[p]) <= 4
              /\ \A k \in 1..Len(conv.pages[p]) :
                    /\ conv.pages[p][k].col = (k - 1) % 2
                    /\ conv.pages[p][k].row = (k - 1) \div 2
              /\ \A j, k \in 1..Len(conv.pages[p]) :
                    j # k => <<conv.pages[p][j].col, conv.pages[p][j].row>>
                               # <<conv.pages[p][k].col, conv.pages[p][k].row>>
        /\ PlacedIds = AddedIds
        /\ (conv.status = "resolved" /\ SkippedIds = {}) =>
              /\ Len(conv.pages) = CeilDiv(Len(conv.images), 4)
              /\ PlacedIds = Ids(conv.images)
              /\ \A p \in 1..(Len(conv.pages) - 1) : Len(conv.pages[p]) = 4

\* A resolved grid call on nine images, none skipped: three pages.
C7_Witness ==
    /\ conv.layout = "multiple-per-page" /\ conv.status = "resolved"
    /\ SkippedIds = {} /\ Len(conv.images) >= 9
    /\ Len(conv.pages) = 3 /\ Len(conv.pages[3]) = 1

(***************************************************************************)
(* C8.  The rotation of every image is one of 0, 90, 180, 270 after any    *)
(* sequence of rotation operations.  (Refuted by the code: the remainder   *)
(* of a negative sum is negative, so rotating 0 by -90 stores -90.)        *)
(***************************************************************************)
C8_RotationIsQuarterTurn ==
    \A k \in 1..Len(images) : images[k].rotation \in {0, 90, 180, 270}

(***************************************************************************)
(* C9.  Brightness and contrast of every image stay within -100..100; the  *)
(* utilities adjustBrightness / adjustContrast and the two handlers store  *)
(* the requested value clamped into that range (unchanged when it lies in  *)
(* the range) and change no other field and no other image.                *)
(***************************************************************************)
InAdjustRange(v) == MinAdjust <= v /\ v <= MaxAdjust
Clamped(requested, stored) ==
    /\ InAdjustRange(stored)
    /\ InAdjustRange(requested) => stored = requested
    /\ requested < MinAdjust => stored = MinAdjust
    /\ requested > MaxAdjust => stored = MaxAdjust

C9_AdjustState ==
    \A k \in 1..Len(images) :
        /\ InAdjustRange(images[k].brightness)
        /\ InAdjustRange(images[k].contrast)
        /\ \A v \in AdjustInputs :
              /\ Clamped(v, adjustBrightness(images[k], v).brightness)
              /\ [adjustBrightness(images[k], v) EXCEPT
                     !.brightness = images[k].brightness] = images[k]
              /\ Clamped(v, adjustContrast(images[k], v).contrast)
              /\ [adjustContrast(images[k], v) EXCEPT
                     !.contrast = images[k].contrast] = images[k]

C9_AdjustStep ==
    \A id \in Range(Ids(images)), v \in AdjustInputs :
        /\ adjustBrightnessHandler(id, v) =>
              /\ Len(images') = Len(images)
              /\ \A k \in 1..Len(images) :
                    IF images[k].id = id
                    THEN /\ Clamped(v, images'[k].brightness)
                         /\ [images'[k] EXCEPT !.brightness = images[k].brightness]
                                = images[k]
                    ELSE images'[k] = images[k]
        /\ adjustContrastHandler(id, v) =>
              /\ Len(images') = Len(images)
              /\ \A k \in 1..Len(images) :
                    IF images[k].id = id
                    THEN /\ Clamped(v, images'[k].contrast)
                         /\ [images'[k] EXCEPT !.contrast = images[k].contrast]
                                = images[k]
                    ELSE images'[k] = images[k]

C9_AdjustClamped == [](C9_AdjustState) /\ [][C9_AdjustStep]_vars

\* Two images, one holding a brightness clamped at the upper end and a
\* contrast clamped at the lower end, the other untouched.
C9_Witness ==
    /\ Len(images) = 2
    /\ \E j, k \in 1..Len(images) :
          /\ j # k
          /\ images[j].brightness = MaxAdjust /\ images[j].contrast = MinAdjust
          /\ images[k].brightness = 0 /\ images[k].contrast = 0

(***************************************************************************)
(* C3.  The list never holds more than 50 images, whatever uploads,        *)
(* removals and reorderings came before; a selection whose files, added to *)
(* the images held, exceed 50 adds no image and sets the error 'Maximum 50 *)
(* images allowed per session'.                                            *)
(***************************************************************************)
C3_WithinLimit == Len(images) <= MaxImages

C3_SelectionStep ==
    \A files \in LimitBatches :
        (handleFileSelect(files) /\ Len(images) + Len(files) > MaxImages) =>
            /\ images' = images
            /\ error' = <<"Maximum 50 images allowed per session">>

C3_SessionLimit == [](C3_WithinLimit) /\ [][C3_SelectionStep]_vars

\* A full list that was reordered and has lost an image before, and a
\* selection just refused.
C3_Witness ==
    /\ Len(images) = MaxImages
    /\ revoked # {}
    /\ \E k \in 1..(Len(images) - 1) : images[k].id > images[k + 1].id
    /\ error = <<"Maximum 50 images allowed per session">>

(***************************************************************************)
(* C2.  A conversion takes the images one after another and puts them in   *)
(* the PDF in the order in which sortedImages() showed them when it was    *)
(* started, whatever the sort mode.  Stated as: the list handed to the     *)
(* converter is the displayed list of that moment and does not change      *)
(* while the call runs; the history of the loop is start and outcome of    *)
(* the first image, then of the second, and so on, no image started before *)
(* the one before it was added or skipped; and the images in the document  *)
(* are the added ones, in that order.                                      *)
(***************************************************************************)
C2_HistoryInOrder ==
    conv.status \in {"running", "resolved"} =>
        /\ Len(convLog) <= 2 * Len(conv.images)
        /\ \A p \in 1..Len(convLog) :
              /\ EventId(convLog[p]) = conv.images[(p + 1) \div 2].id
              /\ IF p % 2 = 1 THEN convLog[p][1] = "start" ELSE IsSettle(convLog[p])
        /\ (conv.pc = "await") = (Len(convLog) % 2 = 1)
        /\ PlacedIds = AddedIds
        /\ conv.status = "resolved" => SettledIds = Ids(conv.images)
        /\ (conv.status = "resolved" /\ SkippedIds = {}) =>
              PlacedIds = Ids(conv.images)

C2_StartStep ==
    /\ (conv.status = "idle" /\ conv'.status = "called") =>
          Ids(conv'.images) = Ids(sortedImages)
    /\ (conv.status # "idle" /\ conv'.status # "idle") =>
          conv'.images = conv.images

C2_SequentialInDisplayOrder == [](C2_HistoryInOrder) /\ [][C2_StartStep]_vars

\* A resolved conversion of two images added in the displayed order, which
\* was not the stored order, under a sort by size.
C2_Witness ==
    /\ conv.status = "resolved" /\ isConverting
    /\ sortBy = "size"
    /\ Len(conv.images) = 2 /\ PlacedIds = Ids(conv.images)
    /\ Ids(images) # Ids(conv.images)
    /\ Range(Ids(images)) = Range(Ids(conv.images))

(***************************************************************************)
(* C4.  Every image of the list comes from a file whose type starts with   *)
(* 'image/', whose size is at most 10 MB and which loads as an image.      *)
(* (Refuted by the code: a file that fails to load is reported by onerror  *)
(* but stays in the list, with dimensions 0 x 0.)                          *)
(***************************************************************************)
C4_OnlyValidImages ==
    \A k \in 1..Len(images) :
        /\ images[k].file.major = "image"
        /\ images[k].file.size <= MaxFileSize
        /\ images[k].file.loadable

(***************************************************************************)
(* C10.  sortedImages() returns a permutation of the stored list and       *)
(* leaves the stored list as it is; sorted by name, size, date or          *)
(* dimensions (area) the result is non-decreasing in that key when the     *)
(* order is 'asc' and non-increasing when it is 'desc'; in custom order it *)
(* is non-decreasing in the order field whatever the sort order.           *)
(***************************************************************************)
SortKey(img, by) ==
    CASE by = "name" -> CollationKey(img.name)
      [] by = "size" -> img.size
      [] by = "date" -> img.uploadTime
      [] by = "dimensions" -> img.dimensions.width * img.dimensions.height
      [] by = "custom" -> img.order

Occurrences(s, x) == Cardinality({k \in 1..Len(s) : s[k] = x})

C10_SortedPermutation ==
    LET call == sortedImagesCall(images, sortBy, sortOrder)
        r == call.result
    IN  /\ call.stored = images
        /\ Len(r) = Len(images)
        /\ \A x \in Range(images) \cup Range(r) :
              Occurrences(r, x) = Occurrences(images, x)
        /\ \A k \in 1..(Len(r) - 1) :
              IF sortBy = "custom" \/ sortOrder = "asc"
              THEN SortKey(r[k], sortBy) <= SortKey(r[k + 1], sortBy)
              ELSE SortKey(r[k], sortBy) >= SortKey(r[k + 1], sortBy)

\* Three images of three names shown by descending name, which is neither
\* the stored order nor its reverse.
C10_Witness ==
    /\ sortBy = "name" /\ sortOrder = "desc"
    /\ Len(images) = 3
    /\ Cardinality({images[k].name : k \in 1..3}) = 3
    /\ Ids(sortedImages) \notin {Ids(images), <<3, 2, 1>>}

(***************************************************************************)
(* C11.  Manual reordering: a drop of the dragged image A on a different   *)
(* image B of the list leaves the list with exactly the images it had, and *)
(* shows A, in custom order, at the position at which B was shown just     *)
(* before the drop, whatever uploads, removals and drops came before.      *)
(* (Refuted by the code: handleImageDrop moves A to B's index in the       *)
(* stored array, which is not B's position in the displayed order once a   *)
(* removal followed by an upload has given a later image a smaller order.) *)
(***************************************************************************)
\* 1-based position of the image id in the sequence s
PositionOf(s, id) == FindIndex(s, id) + 1

\* The images of a list without their order numbers
ImagesOf(s) == {[s[k] EXCEPT !.order = 0] : k \in 1..Len(s)}

C11_DropStep ==
    \A a, b \in Cards :
        (a # b /\ draggedImage = a /\ sortBy = "custom" /\ handleImageDrop(b)) =>
            /\ Len(images') = Len(images)
            /\ ImagesOf(images') = ImagesOf(images)
            /\ sortBy' = "custom"
            /\ PositionOf(ArraySort(images', "custom", sortOrder'), a)
                  = PositionOf(ArraySort(images, "custom", sortOrder), b)

C11_DropMovesToTarget == [][C11_DropStep]_vars

(***************************************************************************)
(* C12.  Image handles are released on removal: every image that leaves    *)
(* the list, through removeImage or through removeSelectedImages, has its  *)
(* preview object URL revoked by that step, the step revokes no other URL, *)
(* and no image of the list ever has a revoked preview URL.                *)
(***************************************************************************)
\* The preview URLs of the images of prev that are no longer in next
LeftList(prev, next) ==
    {prev[k].preview : k \in {j \in 1..Len(prev) :
                                 prev[j].id \notin Range(Ids(next))}}

C12_NoneRevokedInList ==
    \A k \in 1..Len(images) : images[k].preview \notin revoked

C12_RemovalStep ==
    /\ \A id \in Cards :
          removeImage(id) =>
              /\ id \notin Range(Ids(images'))
              /\ revoked' = revoked \cup LeftList(images, images')
              /\ LeftList(images, images') # {}
    /\ removeSelectedImages =>
          /\ \A id \in selectedImages : id \notin Range(Ids(images'))
          /\ revoked' = revoked \cup LeftList(images, images')
          /\ Cardinality(LeftList(images, images')) = Cardinality(selectedImages)
    /\ LeftList(images, images') \subseteq revoked'

C12_HandlesReleased == [](C12_NoneRevokedInList) /\ [][C12_RemovalStep]_vars

\* Two images have left the list, the selection is empty again, and the
\* list holds an image that was uploaded after a removal, its URL alive.
C12_Witness ==
    /\ Cardinality(revoked) = 2
    /\ selectedImages = {}
    /\ \E k \in 1..Len(images) :
          /\ images[k].preview \notin revoked
          /\ \E r \in revoked : images[k].id > r

(***************************************************************************)
(* C13.  Preference persistence round-trips.  As amended: after a          *)
(* savePreferences(p) whose localStorage.setItem does not throw, the entry *)
(* 'imageToPdfPreferences' reads back as the current preferences merged    *)
(* with p, which are also the new preferences; a loadPreferences that      *)
(* finds the entry yields the preferences stored in it, sets page size,    *)
(* orientation, quality and layout to the stored defaults when the stored  *)
(* rememberSettings is true and leaves the four untouched when it is       *)
(* false; without an entry it changes nothing.                             *)
(***************************************************************************)
\* The preferences the stored entry holds in the state s of the storage
StoredPreferences(storage) == JSONparse(storage[PreferencesKey])

C13_SaveStep ==
    \A p \in PreferenceInputs :
        (error' = error /\ savePreferences(p, TRUE)) =>
            /\ PreferencesKey \in DOMAIN localStorage'
            /\ StoredPreferences(localStorage') = Spread(preferences, p)
            /\ preferences' = Spread(preferences, p)

C13_LoadStep ==
    (UNCHANGED <<localStorage, error, success>> /\ loadPreferences) =>
        IF PreferencesKey \in DOMAIN localStorage
        THEN LET stored == StoredPreferences(localStorage)
             IN  /\ preferences' = stored
                 /\ IF stored["rememberSettings"]
                    THEN /\ pageSize' = stored["defaultPageSize"]
                         /\ orientation' = stored["defaultOrientation"]
                         /\ quality' = stored["defaultQuality"]
                         /\ layout' = stored["defaultLayout"]
                    ELSE UNCHANGED <<pageSize, orientation, quality, layout>>
        ELSE UNCHANGED <<preferences, pageSize, orientation, quality, layout>>

C13_SaveAlwaysStoredStep ==
    \A p \in PreferenceInputs, stored \in BOOLEAN :
        savePreferences(p, stored) =>
            /\ PreferencesKey \in DOMAIN localStorage'
            /\ StoredPreferences(localStorage') = Spread(preferences, p)

FracLE(a, b) == a.num * b.den <= b.num * a.den
FracEq(a, b) == a.num * b.den = b.num * a.den
FracSum(a, b) == Frac(a.num * b.den + b.num * a.den, a.den * b.den)
Whole(n) == Frac(n, 1)

C14_FitsInsideMargins ==
    proc.pc = "placed" =>
        LET page == getPageDimensions(proc.settings)
            maxWidth == page.width - 2 * 200
            maxHeight == page.height - 2 * 200
            at == proc.placement
            right == FracSum(at.x, at.width)
            bottom == FracSum(at.y, at.height)
        IN  /\ proc.canvas.width > 0 /\ proc.canvas.height > 0
            /\ at.width.num > 0 /\ at.height.num > 0
            /\ FracLE(at.width, Whole(maxWidth))
            /\ FracLE(at.height, Whole(maxHeight))
            /\ at.width.num * at.height.den * proc.canvas.height
                  = at.height.num * at.width.den * proc.canvas.width
            /\ FracEq(at.width, Whole(maxWidth)) \/ FracEq(at.height, Whole(maxHeight))
            /\ FracLE(Whole(200), at.x) /\ FracLE(right, Whole(page.width - 200))
            /\ FracLE(Whole(200), at.y) /\ FracLE(bottom, Whole(page.height - 200))
            /\ FracEq(FracSum(at.x, right), Whole(page.width))
            /\ FracEq(FracSum(at.y, bottom), Whole(page.height))

\* A canvas turned by 90 degrees, placed on a Letter page in landscape: the
\* height is the limit reached and the image is narrower than the area.
C14_Witness ==
    /\ proc.pc = "placed" /\ proc.rotate = "done"
    /\ proc.settings.pageSize = "Letter"
    /\ proc.settings.orientation = "landscape"
    /\ proc.canvas.width = 3 /\ proc.canvas.height = 4
    /\ proc.placement.height = Frac(2159 - 400, 1)
    /\ ~FracEq(proc.placement.width, Whole(2794 - 400))
    /\ ~FracLE(proc.placement.x, Whole(200))

(***************************************************************************)
(* C15.  rotateCanvas recomputes the bounding box of the rotated image: a  *)
(* w x h canvas turned by 90 or 270 degrees becomes a canvas of exactly    *)
(* h x w, turned by 180 degrees one of exactly w x h, and processImage     *)
(* does not rotate at all when the rotation is 0.  (Refuted by the code:   *)
(* Math.cos and Math.sin of the angle are not 0 where they should be, the  *)
(* sums exceed the whole number of pixels by less than one part in 10^15,  *)
(* and Math.ceil makes one more pixel of it: a 1 x 1 canvas turned by 180  *)
(* degrees becomes 2 x 2, a 640 x 480 one turned by 90 becomes 481 x 640.) *)
(***************************************************************************)
C15_RotatedBoundingBox ==
    proc.pc \in {"rotated", "processed", "placed"} =>
        LET w == proc.decoded.width
            h == proc.decoded.height
        IN  /\ (proc.image.rotation \in {90, 270} /\ proc.rotate = "done") =>
                  (proc.canvas.width = h /\ proc.canvas.height = w)
            /\ (proc.image.rotation = 180 /\ proc.rotate = "done") =>
                  (proc.canvas.width = w /\ proc.canvas.height = h)
            /\ proc.image.rotation = 0 =>
                  /\ proc.rotate = "skipped"
                  /\ proc.canvas.width = w /\ proc.canvas.height = h

(***************************************************************************)
(* C16.  adjustBrightnessContrast changes only the R, G and B channels:    *)
(* the canvas keeps its width, its height and the alpha of every pixel;    *)
(* every channel of the result is an integer of 0..255; brightness is      *)
(* applied before contrast, each with its own clamping, so that an opaque  *)
(* pixel's channel v becomes clamp((clamp(v * (1 + b/100)) - 128) * (1 +   *)
(* c/100) + 128), which is 128 whenever the contrast is -100; and          *)
(* processImage leaves the canvas as it is when brightness and contrast    *)
(* are both 0.                                                             *)
(***************************************************************************)
\* clamp(n / 100) as a Uint8ClampedArray stores it, for the levels of the
\* model, at which n is a multiple of 50
Stored(n) ==
    IF n <= 0 THEN 0
    ELSE IF n >= 25500 THEN 255
    ELSE IF n % 100 = 0 THEN n \div 100
    ELSE IF (n \div 100) % 2 = 0 THEN n \div 100 ELSE (n \div 100) + 1

BrightnessThenContrast(v, b, c) ==
    Stored((Stored(v * (100 + b)) - 128) * (100 + c) + 12800)

C16_AdjustStep ==
    (proc.pc = "rotated" /\ proc'.pc = "processed") =>
        LET b == proc.image.brightness
            c == proc.image.contrast
            before == proc.canvas
            after == proc'.canvas
        IN  IF b = 0 /\ c = 0
            THEN after = before /\ proc'.adjust = "skipped"
            ELSE /\ proc'.adjust = "done"
                 /\ after.width = before.width /\ after.height = before.height
                 /\ Len(after.data) = Len(before.data)
                 /\ \A i \in 1..Len(before.data) :
                       /\ after.data[i][4] = before.data[i][4]
                       /\ \A k \in 1..3 :
                             /\ after.data[i][k] \in 0..255
                             /\ before.data[i][4] = 255 =>
                                   after.data[i][k] =
                                      BrightnessThenContrast(before.data[i][k], b, c)
                             /\ (before.data[i][4] = 255 /\ c = -100) =>
                                   after.data[i][k] = 128

C16_OnlyColourChannels == [][C16_AdjustStep]_vars

\* A rotated canvas with an opaque and a transparent pixel, adjusted with
\* brightness 100 and contrast -50: 200 -> 255 -> 192, 128 -> 255 -> 192,
\* 3 -> 6 -> 67, the alphas as they were.
C16_Witness ==
    /\ proc.pc = "processed" /\ proc.adjust = "done" /\ proc.rotate = "done"
    /\ proc.image.brightness = 100 /\ proc.image.contrast = -50
    /\ \E i, j \in 1..Len(proc.canvas.data) :
          /\ proc.canvas.data[i] = <<192, 192, 67, 255>>
          /\ proc.canvas.data[j][4] = 0

(***************************************************************************)
(* C17.  Activating "Reset All" on an image sets its rotation, its         *)
(* brightness and its contrast to 0, whatever they were before, and        *)
(* changes no other image.  (Refuted by the code: the button hands         *)
(* -image.brightness and -image.contrast to handlers that SET the value    *)
(* they are given, so that a brightness of 100 becomes -100, not 0; only   *)
(* the rotation, whose handler ADDS its argument, returns to 0.)           *)
(***************************************************************************)
C17_ResetAllStep ==
    \A img \in Range(images) :
        resetAll(img) =>
            /\ Len(images') = Len(images)
            /\ \A k \in 1..Len(images) :
                  IF images[k].id = img.id
                  THEN /\ images'[k].rotation = 0
                       /\ images'[k].brightness = 0
                       /\ images'[k].contrast = 0
                  ELSE images'[k] = images[k]

C17_ResetAllZeroes == [][C17_ResetAllStep]_vars

====
